---- MODULE Spec2Model ----
(***************************************************************************)
(* Review store and review aggregator of the Multi-Source Product Review   *)
(* Aggregator.                                                             *)
(*                                                                         *)
(* The store is the MySQL table `reviews` (add-reviews-table.sql) behind   *)
(* the Express router backend/src/routes/reviews.js.  Each route handler   *)
(* is one action; the SQL statements it issues are operators over the set  *)
(* of rows.  The frontend mock getReviewStats (services/mockReviewAPI) is  *)
(* an operator over the literal mockReviews array.                         *)
(*                                                                         *)
(* Specifications: Spec (the POST, GET /:id and DELETE /:id handlers),     *)
(* SpecAgg and SpecRound (the aggregate handler), SpecList and SpecPage    *)
(* (the list handler), SpecCascade (deletion of a product),                *)
(* SpecInterleave (the aggregate handler read by read), SpecProductList    *)
(* and SpecPaging (the ProductList component), SpecHealth (the health      *)
(* check of App), SpecDetail (the reviews effect of ProductDetail),        *)
(* SpecReviewsPage (ReviewAggregatorPage and ReviewFetcher).               *)
(*                                                                         *)
(* Conventions:                                                            *)
(*   - an SQL NULL / JS undefined is the empty tuple <<>>, a present value *)
(*     v is <<v>>;                                                         *)
(*   - a DECIMAL(14,4) such as AVG(rating) is an integer number of         *)
(*     ten-thousandths, its text "d.dddd" is what parseFloat receives;     *)
(*   - a JS object with integer keys is a function whose DOMAIN is its     *)
(*     key set.                                                            *)
(***************************************************************************)
EXTENDS Integers, Sequences, FiniteSets, TLC

\* ------------------------------------------------------------------ bounds
MaxRows == 2        \* rows inserted in one behaviour of Spec
MaxSeed == 2        \* rows inserted in one behaviour of SpecAgg
MaxCount == 20      \* rows inserted in one behaviour of SpecRound
MaxPage == 51       \* rows inserted in one behaviour of SpecPage
MaxCatalog == 10    \* products of the catalog the product list pages through
MaxInFlight == 3    \* requests of one component in flight at once
MaxChecks == 6      \* health checks started in one behaviour of SpecHealth
MaxRuns == 3        \* runs of handleFetch in one behaviour of SpecReviewsPage

\* ------------------------------------------------------------- data model
Sources == {"Amazon", "BestBuy", "Walmart"}

\* variant: the ENUM declared as ('Walmart', 'Amazon', 'BestBuy')
SourceOrderWalmartFirst == <<"Walmart", "Amazon", "BestBuy">>

\* ENUM members in declaration order; ORDER BY on an ENUM column sorts by it
SourceOrder == <<"Amazon", "BestBuy", "Walmart">>

Ratings == 1..5

\* ids of the rows of table products when the system starts
ProductIds == {1, 2}

\* ids a request may name: every product id and one id that never existed
QueryIds == {1, 2, 3}

\* columns of the table created by the migration script
MigrationColumns ==
    {"id", "product_id", "source", "reviewer_name", "rating", "title",
     "content", "review_date", "helpful_votes", "verified_purchase",
     "created_at"}

\* columns of the table the route's INSERT statement is written against
\* (the table created by db/init.sql when it exists before the migration,
\* whose CREATE TABLE IF NOT EXISTS then does nothing)
InitSqlColumns == MigrationColumns \cup {"external_id"}

\* column list of the INSERT statement of POST /api/reviews
InsertColumns ==
    {"product_id", "source", "external_id", "reviewer_name", "rating",
     "title", "content", "review_date", "verified_purchase",
     "helpful_votes", "created_at"}

Null == <<>>

Some(v) == <<v>>

VARIABLES
    tableColumns,   \* columns of the deployed reviews table
    products,       \* ids of the rows of table products
    reviews,        \* rows of table reviews
    nextId,         \* AUTO_INCREMENT counter of reviews.id
    resp,           \* the request just served and its response
    lastAgg,        \* <<product id, data>> of the first aggregate answered since the last write
    deleted,        \* ids of the rows removed by DELETE /api/reviews/:id so far
    pending,        \* the aggregate request between its first and its last read
    productList,    \* state of the ProductList component and its fetches in flight
    app,            \* state of the App component's health-check effect
    productDetail,  \* state of the ProductDetail component's reviews effect
    aggregatorPage, \* state of the ReviewAggregatorPage component
    fetcher         \* state of the ReviewFetcher component

\* the frontend components
clientVars == <<productList, app, productDetail, aggregatorPage, fetcher>>

vars == <<tableColumns, products, reviews, nextId, resp, lastAgg, deleted,
          pending, clientVars>>

\* the rows an aggregate request in flight could have read: every state of
\* the table between the request's first read and its last
NoneInFlight == IF pending = Null THEN TRUE ELSE pending.step = "done"

Observe(rows) ==
    IF NoneInFlight THEN pending
    ELSE [pending EXCEPT !.seen = @ \cup {rows}]

\* --------------------------------------------------------------- SQL layer
RECURSIVE SumRating(_)
SumRating(S) ==
    IF S = {} THEN 0
    ELSE LET r == CHOOSE x \in S : TRUE IN r.rating + SumRating(S \ {r})

\* WHERE product_id = ?
WhereProduct(rows, pid) == {r \in rows : r.product_id = pid}

\* variant: SUM(rating) selected in place of AVG(rating)
SqlSum(sum, count) == sum * 10000

\* AVG over an INT column: DECIMAL with 4 fractional digits, rounded half up
SqlAvg(sum, count) == (2 * sum * 10000 + count) \div (2 * count)

MinRating(S) == CHOOSE m \in {r.rating : r \in S} : \A r \in S : m <= r.rating

MaxRating(S) == CHOOSE m \in {r.rating : r \in S} : \A r \in S : m >= r.rating

\* SELECT COUNT(*), AVG(rating), MIN(rating), MAX(rating) ... WHERE product_id = ?
\* (one row, the aggregates of an empty set being NULL)
OverallQuery(rows, pid) ==
    LET S == WhereProduct(rows, pid) IN
    <<[total_reviews |-> Cardinality(S),
       average_rating |-> IF S = {} THEN Null
                          ELSE Some(SqlAvg(SumRating(S), Cardinality(S))),
       min_rating |-> IF S = {} THEN Null ELSE Some(MinRating(S)),
       max_rating |-> IF S = {} THEN Null ELSE Some(MaxRating(S))]>>

\* SELECT source, COUNT(*), AVG(rating) ... GROUP BY source ORDER BY source
SourceQueryRow(rows, pid, i) ==
    LET S == {r \in WhereProduct(rows, pid) : r.source = SourceOrder[i]} IN
    [source |-> SourceOrder[i],
     review_count |-> Cardinality(S),
     average_rating |-> SqlAvg(SumRating(S), Cardinality(S))]

RECURSIVE SourceQueryFrom(_, _, _)
SourceQueryFrom(rows, pid, i) ==
    IF i > Len(SourceOrder) THEN <<>>
    ELSE IF \E r \in WhereProduct(rows, pid) : r.source = SourceOrder[i]
         THEN <<SourceQueryRow(rows, pid, i)>> \o SourceQueryFrom(rows, pid, i + 1)
         ELSE SourceQueryFrom(rows, pid, i + 1)

SourceQuery(rows, pid) == SourceQueryFrom(rows, pid, 1)

\* SELECT rating, COUNT(*) ... GROUP BY rating ORDER BY rating DESC
RECURSIVE GroupByRatingDesc(_, _)
GroupByRatingDesc(rows, v) ==
    IF v < 1 THEN <<>>
    ELSE LET S == {r \in rows : r.rating = v} IN
         IF S = {} THEN GroupByRatingDesc(rows, v - 1)
         ELSE <<[rating |-> v, count |-> Cardinality(S)]>>
              \o GroupByRatingDesc(rows, v - 1)

\* variant: the histogram query without its WHERE clause
HistogramQueryNoWhere(rows, pid) == GroupByRatingDesc(rows, 5)

HistogramQuery(rows, pid) == GroupByRatingDesc(WhereProduct(rows, pid), 5)

\* WHERE id = ?
RowsById(rows, id) == {r \in rows : r.id = id}

\* --------------------------------------------------- number formatting (JS)
\* sign of double(t) - t for the decimal tie t = (2*lo+1)/20, 1 < t < 5:
\* t lies in [2^k, 2^(k+1)), its double is t*2^(52-k) rounded to an integer,
\* and t*2^(52-k) = (2*lo+1)*2^(50-k)/5, so the residue mod 5 decides
RECURSIVE PowMod5(_)
PowMod5(e) == IF e = 0 THEN 1 ELSE (2 * PowMod5(e - 1)) % 5

BinExp(lo) == IF 2 * lo + 1 < 40 THEN 0 ELSE IF 2 * lo + 1 < 80 THEN 1 ELSE 2

TieResidue(lo) == ((2 * lo + 1) * PowMod5(50 - BinExp(lo))) % 5

\* parseFloat("d.dddd").toFixed(1) as a number of tenths: the n minimising
\* |n/10 - x| for the double x, the larger n when two are equally near
ToFixed1(avg4) ==
    LET lo == avg4 \div 1000
        rem == avg4 % 1000
    IN  IF rem < 500 THEN lo
        ELSE IF rem > 500 THEN lo + 1
        ELSE IF TieResidue(lo) \in {1, 2} THEN lo ELSE lo + 1

\* the digits toFixed(1) prints for n tenths
FixedString(n) == ToString(n \div 10) \o "." \o ToString(n % 10)


\* ------------------------------------- GET /api/reviews/aggregate/:productId
\* variant: ratingHistogram declared once for the module, so that a request
\* starts from the object the previous request filled
SharedHistogram ==
    IF resp.op = "aggregate" /\ resp.status = 200
    THEN resp.data.rating_histogram
    ELSE [v \in Ratings |-> 0]

\* variant: const ratingHistogram = {}
SparseHistogram == [v \in {} |-> 0]

\* const ratingHistogram = {5: 0, 4: 0, 3: 0, 2: 0, 1: 0}
FreshHistogram == [v \in Ratings |-> 0]

\* obj[key] = val
Assign(obj, key, val) ==
    [k \in DOMAIN obj \cup {key} |-> IF k = key THEN val ELSE obj[k]]

\* histogram.forEach(row => { ratingHistogram[row.rating] = row.count })
RECURSIVE ForEachHistogramRow(_, _)
ForEachHistogramRow(obj, rowSeq) ==
    IF rowSeq = <<>> THEN obj
    ELSE ForEachHistogramRow(Assign(obj, Head(rowSeq).rating, Head(rowSeq).count),
                             Tail(rowSeq))

\* x || 0 for a nullable number
OrZero(x) == IF x = Null \/ x[1] = 0 THEN 0 ELSE x[1]

\* variant: average_rating formatted without the null guard
OverallJsonNoGuard(row) ==
    [average_rating |-> IF row.average_rating # Null
                        THEN FixedString(ToFixed1(row.average_rating[1]))
                        ELSE "NaN",
     total_reviews |-> OrZero(Some(row.total_reviews)),
     min_rating |-> OrZero(row.min_rating),
     max_rating |-> OrZero(row.max_rating)]

\* the `overall` object of the response
OverallJson(row) ==
    [average_rating |-> IF row.average_rating # Null
                        THEN FixedString(ToFixed1(row.average_rating[1]))
                        ELSE "0.0",
     total_reviews |-> OrZero(Some(row.total_reviews)),
     min_rating |-> OrZero(row.min_rating),
     max_rating |-> OrZero(row.max_rating)]

\* sourceBreakdown.map(s => ({source, average_rating, review_count}))
SourceBreakdownJson(rowSeq) ==
    [i \in 1..Len(rowSeq) |->
        [source |-> rowSeq[i].source,
         average_rating |-> FixedString(ToFixed1(rowSeq[i].average_rating)),
         review_count |-> rowSeq[i].review_count]]

\* the `data` object built from the three result sets
AggregateJson(overallStats, sourceBreakdown, histogram) ==
    [overall |-> OverallJson(overallStats[1]),
     source_breakdown |-> SourceBreakdownJson(sourceBreakdown),
     rating_histogram |-> ForEachHistogramRow(FreshHistogram, histogram)]

\* the request just served: handler, request parameter or body, whether the
\* database failed under it, HTTP status, response payload, and the rows of
\* reviews when the request arrived
Reply(op, req, fault, status, data) ==
    [op |-> op, req |-> req, fault |-> fault, status |-> status, data |-> data,
     pre |-> reviews, prev |-> Null]

\* the three reads of one request, all against the same rows
AggregateData(rows, pid) ==
    AggregateJson(OverallQuery(rows, pid), SourceQuery(rows, pid),
                  HistogramQuery(rows, pid))

\* variant: the handler removes the rows it has read
AggregateConsuming(pid, failAt) ==
    /\ resp' = [(IF failAt = 0
                 THEN Reply("aggregate", pid, FALSE, 200, AggregateData(reviews, pid))
                 ELSE Reply("aggregate", pid, TRUE, 500,
                            "Failed to fetch review aggregate"))
                EXCEPT !.prev = lastAgg]
    /\ lastAgg' = IF failAt = 0 /\ lastAgg = Null
                  THEN <<pid, resp'.data>>
                  ELSE lastAgg
    /\ reviews' = reviews \ WhereProduct(reviews, pid)
    /\ UNCHANGED <<tableColumns, products, nextId, deleted>>
    /\ pending' = Observe(reviews')
    /\ UNCHANGED clientVars

\* variant: a rejection of the histogram query is swallowed and the response
\* built from the two result sets read before it
AggregateSwallowing(pid, failAt) ==
    /\ resp' = [(IF failAt = 0
                 THEN Reply("aggregate", pid, FALSE, 200, AggregateData(reviews, pid))
                 ELSE IF failAt = 3
                 THEN Reply("aggregate", pid, TRUE, 200,
                            AggregateJson(OverallQuery(reviews, pid),
                                          SourceQuery(reviews, pid), <<>>))
                 ELSE Reply("aggregate", pid, TRUE, 500,
                            "Failed to fetch review aggregate"))
                EXCEPT !.prev = lastAgg]
    /\ lastAgg' = IF failAt = 0 /\ lastAgg = Null
                  THEN <<pid, resp'.data>>
                  ELSE lastAgg
    /\ UNCHANGED <<tableColumns, products, reviews, nextId, deleted>>
    /\ UNCHANGED <<pending, clientVars>>

\* the whole handler; failAt names the db.query that rejects (0: none)
Aggregate(pid, failAt) ==
    /\ resp' = [(IF failAt = 0
                 THEN Reply("aggregate", pid, FALSE, 200, AggregateData(reviews, pid))
                 ELSE Reply("aggregate", pid, TRUE, 500,
                            "Failed to fetch review aggregate"))
                EXCEPT !.prev = lastAgg]
    /\ lastAgg' = IF failAt = 0 /\ lastAgg = Null
                  THEN <<pid, resp'.data>>
                  ELSE lastAgg
    /\ UNCHANGED <<tableColumns, products, reviews, nextId, deleted>>
    /\ UNCHANGED <<pending, clientVars>>

\* The same handler, one action per db.query.  Each query is a statement of
\* its own on a pooled connection, outside any transaction, so other
\* requests' statements run between them.
AggregateRejected(pid) ==
    /\ resp' = [Reply("aggregate", pid, TRUE, 500, "Failed to fetch review aggregate")
                EXCEPT !.prev = lastAgg]
    /\ UNCHANGED lastAgg

\* the request arrives and the overall statistics are read
AggregateReadOverall(pid, dbFails) ==
    /\ NoneInFlight
    /\ IF dbFails
       THEN /\ pending' = [pid |-> pid, step |-> "done", overallStats |-> <<>>,
                           sourceBreakdown |-> <<>>, seen |-> {reviews}]
            /\ AggregateRejected(pid)
       ELSE /\ pending' = [pid |-> pid, step |-> "sources",
                           overallStats |-> OverallQuery(reviews, pid),
                           sourceBreakdown |-> <<>>, seen |-> {reviews}]
            /\ UNCHANGED <<resp, lastAgg>>
    /\ UNCHANGED <<tableColumns, products, reviews, nextId, deleted, clientVars>>

\* the source breakdown is read
AggregateReadSources(dbFails) ==
    /\ pending # Null
    /\ pending.step = "sources"
    /\ IF dbFails
       THEN /\ pending' = [pending EXCEPT !.step = "done"]
            /\ AggregateRejected(pending.pid)
       ELSE /\ pending' = [pending EXCEPT
                              !.step = "histogram",
                              !.sourceBreakdown = SourceQuery(reviews, pending.pid)]
            /\ UNCHANGED <<resp, lastAgg>>
    /\ UNCHANGED <<tableColumns, products, reviews, nextId, deleted, clientVars>>

\* the histogram is read and the response sent
AggregateReadHistogram(dbFails) ==
    /\ pending # Null
    /\ pending.step = "histogram"
    /\ pending' = [pending EXCEPT !.step = "done"]
    /\ IF dbFails
       THEN AggregateRejected(pending.pid)
       ELSE /\ resp' = [Reply("aggregate", pending.pid, FALSE, 200,
                              AggregateJson(pending.overallStats,
                                            pending.sourceBreakdown,
                                            HistogramQuery(reviews, pending.pid)))
                        EXCEPT !.prev = lastAgg]
            /\ lastAgg' = IF lastAgg = Null THEN <<pending.pid, resp'.data>> ELSE lastAgg
    /\ UNCHANGED <<tableColumns, products, reviews, nextId, deleted, clientVars>>

\* ------------------------------------------------------- direct SQL writes
\* created_at of the newest row
LatestStamp(rows) ==
    IF rows = {} THEN 1
    ELSE CHOOSE t \in {r.created_at : r \in rows} : \A r \in rows : t >= r.created_at

\* one row of the script's `INSERT INTO reviews (...) VALUES (...), (...)`:
\* the row satisfies the table's constraints, id is the next AUTO_INCREMENT
\* value and created_at the statement's CURRENT_TIMESTAMP, the same for
\* every row of the statement
SqlInsert(p, s, v) ==
    /\ p \in products
    /\ reviews' = reviews \cup
          {[id |-> nextId, product_id |-> p, source |-> s, rating |-> v,
            helpful_votes |-> 3, created_at |-> 1]}
    /\ nextId' = nextId + 1
    /\ lastAgg' = Null
    /\ resp' = Reply("sql", p, FALSE, 0, Null)
    /\ UNCHANGED <<tableColumns, products, deleted>>
    /\ pending' = Observe(reviews')
    /\ UNCHANGED clientVars

\* one row of an INSERT statement run after every stored row was created,
\* naming neither helpful_votes nor created_at: the column defaults apply
SqlInsertLater(p, s, v) ==
    /\ p \in products
    /\ reviews' = reviews \cup
          {[id |-> nextId, product_id |-> p, source |-> s, rating |-> v,
            helpful_votes |-> 0, created_at |-> LatestStamp(reviews) + 1]}
    /\ nextId' = nextId + 1
    /\ lastAgg' = Null
    /\ resp' = Reply("sql", p, FALSE, 0, Null)
    /\ UNCHANGED <<tableColumns, products, deleted>>
    /\ pending' = Observe(reviews')
    /\ UNCHANGED clientVars

\* variant: the reviews table without its foreign key
DeleteProductOrphaning(p) ==
    /\ p \in products
    /\ products' = products \ {p}
    /\ lastAgg' = Null
    /\ resp' = Reply("sql", p, FALSE, 0, Null)
    /\ UNCHANGED <<tableColumns, reviews, nextId, deleted>>
    /\ UNCHANGED <<pending, clientVars>>

\* DELETE FROM products WHERE id = p.  FOREIGN KEY (product_id) REFERENCES
\* products(id) ON DELETE CASCADE removes the product's reviews in the same
\* statement.
DeleteProduct(p) ==
    /\ p \in products
    /\ products' = products \ {p}
    /\ reviews' = reviews \ WhereProduct(reviews, p)
    /\ lastAgg' = Null
    /\ resp' = Reply("sql", p, FALSE, 0, Null)
    /\ UNCHANGED <<tableColumns, nextId, deleted>>
    /\ pending' = Observe(reviews')
    /\ UNCHANGED clientVars

\* ------------------------------------------------------ POST /api/reviews
\* request bodies: a field is absent (Null) or present; rating is absent, a
\* number, or a string that is not a number
RatingInputs ==
    {[kind |-> "undef", num |-> 0], [kind |-> "nan", num |-> 0]}
    \cup {[kind |-> "num", num |-> n] : n \in 0..6}

\* the plain valid review
ValidBody ==
    [product_id |-> Some(1), source |-> Some("Amazon"),
     reviewer_name |-> Some("x"), rating |-> [kind |-> "num", num |-> 3],
     title |-> Some("x"), content |-> Some("x"), helpful_votes |-> Null]

\* the bodies sent: the valid review with at most one field absent or unusual
Bodies ==
    {ValidBody}
    \cup {[ValidBody EXCEPT !.product_id = x] : x \in {Null, Some(3)}}
    \cup {[ValidBody EXCEPT !.source = x] : x \in {Null, Some("eBay")}}
    \cup {[ValidBody EXCEPT !.reviewer_name = Null],
          [ValidBody EXCEPT !.title = Null],
          [ValidBody EXCEPT !.content = Null],
          [ValidBody EXCEPT !.helpful_votes = Some(-1)]}
    \cup {[ValidBody EXCEPT !.rating = x] : x \in RatingInputs}

\* !x for a string or id field
Absent(x) == x = Null

\* !rating : undefined and 0 are falsy, a non-empty string is not
RatingFalsy(rt) == rt.kind = "undef" \/ (rt.kind = "num" /\ rt.num = 0)

\* rating < 1 || rating > 5 : every comparison with NaN is false
RatingOutOfRange(rt) == rt.kind = "num" /\ (rt.num < 1 \/ rt.num > 5)

\* variant: the check without !title
MissingRequiredNoTitle(body) ==
    \/ Absent(body.product_id)
    \/ Absent(body.source)
    \/ Absent(body.reviewer_name)
    \/ RatingFalsy(body.rating)
    \/ Absent(body.content)

\* if (!product_id || !source || !reviewer_name || !rating || !title || !content)
MissingRequired(body) ==
    \/ Absent(body.product_id)
    \/ Absent(body.source)
    \/ Absent(body.reviewer_name)
    \/ RatingFalsy(body.rating)
    \/ Absent(body.title)
    \/ Absent(body.content)

\* helpful_votes = 0 in the destructuring pattern
HelpfulDefault(body) ==
    IF body.helpful_votes = Null THEN 0 ELSE body.helpful_votes[1]

\* variant: source VARCHAR in place of the ENUM, and no CHECK on rating
InsertRejectedUnconstrained(body) ==
    \/ ~(InsertColumns \subseteq tableColumns)
    \/ Null \in {body.product_id, body.source, body.reviewer_name, body.title,
                 body.content}
    \/ body.rating.kind # "num"
    \/ body.product_id[1] \notin products

\* the INSERT is rejected by the server: a column the table does not have,
\* NULL for a NOT NULL column, a value the column type or ENUM cannot hold
\* (strict mode), the CHECK on rating, or the foreign key on product_id
InsertRejected(body) ==
    \/ ~(InsertColumns \subseteq tableColumns)
    \/ Null \in {body.product_id, body.source, body.reviewer_name, body.title,
                 body.content}
    \/ body.rating.kind # "num"
    \/ body.source[1] \notin Sources
    \/ body.rating.num \notin Ratings
    \/ body.product_id[1] \notin products

\* variant: the id is the lowest one no row holds, in place of AUTO_INCREMENT
InsertedRowLowestFreeId(body, t) ==
    [id |-> CHOOSE i \in 1..(Cardinality(reviews) + 1) :
                /\ RowsById(reviews, i) = {}
                /\ \A j \in 1..(i - 1) : RowsById(reviews, j) # {},
     product_id |-> body.product_id[1],
     source |-> body.source[1], rating |-> body.rating.num,
     helpful_votes |-> HelpfulDefault(body), created_at |-> t]

\* the row the INSERT stores; created_at is NOW()
InsertedRow(body, t) ==
    [id |-> nextId, product_id |-> body.product_id[1],
     source |-> body.source[1], rating |-> body.rating.num,
     helpful_votes |-> HelpfulDefault(body), created_at |-> t]

\* the `data` object of the 201 response (keys with undefined values are
\* not serialised)
CreatedJson(body) ==
    [id |-> nextId, product_id |-> body.product_id[1],
     source |-> body.source[1], reviewer_name |-> body.reviewer_name[1],
     rating |-> body.rating.num, title |-> body.title[1],
     content |-> body.content[1], verified_purchase |-> FALSE,
     helpful_votes |-> HelpfulDefault(body)]

\* the whole handler; dbFails: the connection fails while the INSERT runs.
\* A rejected INSERT adds no row; whether it consumes an AUTO_INCREMENT value
\* only leaves a gap in the ids, which stay unique and increasing.
PostReview(body, dbFails, t) ==
    /\ IF MissingRequired(body)
       THEN /\ resp' = Reply("post", body, FALSE, 400, "Missing required fields")
            /\ UNCHANGED <<reviews, nextId, lastAgg>>
       ELSE IF RatingOutOfRange(body.rating)
       THEN /\ resp' = Reply("post", body, FALSE, 400, "Rating must be between 1 and 5")
            /\ UNCHANGED <<reviews, nextId, lastAgg>>
       ELSE IF dbFails \/ InsertRejected(body)
       THEN /\ resp' = Reply("post", body, dbFails, 500, "Failed to create review")
            /\ UNCHANGED <<reviews, nextId, lastAgg>>
       ELSE /\ nextId <= MaxRows
            /\ reviews' = reviews \cup {InsertedRow(body, t)}
            /\ nextId' = nextId + 1
            /\ lastAgg' = Null
            /\ resp' = Reply("post", body, FALSE, 201, CreatedJson(body))
    /\ UNCHANGED <<tableColumns, products, deleted>>
    /\ pending' = Observe(reviews')
    /\ UNCHANGED clientVars

\* -------------------------------------------------------- GET /api/reviews
\* limit = 50 in the destructuring pattern
DefaultLimit == 50

\* if (x) for a query value: a string, falsy only when absent or empty
Supplied(x) == x # Null

\* the query without any value
NoQuery ==
    [product_id |-> Null, source |-> Null, min_rating |-> Null,
     max_rating |-> Null, limit |-> Null, offset |-> Null]

\* variant: the WHERE clause without its r.rating <= ? term
ListWhereNoMax(rows, q) ==
    {r \in rows :
        /\ Supplied(q.product_id) => r.product_id = q.product_id[1]
        /\ Supplied(q.source) => r.source = q.source[1]
        /\ Supplied(q.min_rating) => r.rating >= q.min_rating[1]}

\* WHERE 1=1 and one AND term per supplied value
ListWhere(rows, q) ==
    {r \in rows :
        /\ Supplied(q.product_id) => r.product_id = q.product_id[1]
        /\ Supplied(q.source) => r.source = q.source[1]
        /\ Supplied(q.min_rating) => r.rating >= q.min_rating[1]
        /\ Supplied(q.max_rating) => r.rating <= q.max_rating[1]}

\* ORDER BY r.created_at DESC: every sequence of the rows with created_at
\* descending; the order of rows with equal created_at is the server's choice
StampedAt(S, t) == {r \in S : r.created_at = t}

RECURSIVE OrderByCreatedDesc(_)
OrderByCreatedDesc(S) ==
    IF S = {} THEN {<<>>}
    ELSE UNION {{<<r>> \o rest : rest \in OrderByCreatedDesc(S \ {r})}
                   : r \in StampedAt(S, LatestStamp(S))}

\* variant: OFFSET without LIMIT
OffsetOnly(seq, limit, offset) == SubSeq(seq, offset + 1, Len(seq))

\* LIMIT ? OFFSET ?
LimitOffset(seq, limit, offset) ==
    SubSeq(seq, offset + 1, IF offset + limit < Len(seq) THEN offset + limit ELSE Len(seq))

\* parseInt(limit), parseInt(offset) of the destructured values
LimitOf(q) == IF q.limit = Null THEN DefaultLimit ELSE q.limit[1]

OffsetOf(q) == IF q.offset = Null THEN 0 ELSE q.offset[1]

\* the `data` and `meta` of the response for the rows in the order returned
ListJson(page, q) ==
    [data |-> page,
     meta |-> [count |-> Len(page), limit |-> LimitOf(q), offset |-> OffsetOf(q)]]

\* the whole handler; a negative LIMIT or OFFSET is a syntax error of the
\* statement; the server returns the matching rows in one of the orders
\* ORDER BY allows
ListReviews(q, dbFails) ==
    /\ IF dbFails \/ LimitOf(q) < 0 \/ OffsetOf(q) < 0
       THEN resp' = Reply("list", q, dbFails, 500, "Failed to fetch reviews")
       ELSE \E order \in OrderByCreatedDesc(ListWhere(reviews, q)) :
               resp' = Reply("list", q, FALSE, 200,
                             ListJson(LimitOffset(order, LimitOf(q), OffsetOf(q)), q))
    /\ UNCHANGED <<tableColumns, products, reviews, nextId, lastAgg, deleted>>
    /\ UNCHANGED <<pending, clientVars>>

\* ---------------------------------------------------- GET /api/reviews/:id
\* SELECT r.*, p.name ... LEFT JOIN products ... WHERE r.id = ?
\* (the joined product_name is not part of the modelled row)
GetReview(id, dbFails) ==
    /\ resp' = IF dbFails THEN Reply("get", id, TRUE, 500, "Failed to fetch review")
               ELSE IF RowsById(reviews, id) = {}
               THEN Reply("get", id, FALSE, 404, "Review not found")
               ELSE Reply("get", id, FALSE, 200, CHOOSE r \in RowsById(reviews, id) : TRUE)
    /\ UNCHANGED <<tableColumns, products, reviews, nextId, lastAgg, deleted>>
    /\ UNCHANGED <<pending, clientVars>>

\* ------------------------------------------------- DELETE /api/reviews/:id
\* variant: the handler without the affectedRows check
DeleteReviewUnchecked(id, dbFails) ==
    /\ IF dbFails
       THEN /\ resp' = Reply("delete", id, TRUE, 500, "Failed to delete review")
            /\ UNCHANGED <<reviews, lastAgg, deleted>>
       ELSE /\ reviews' = reviews \ RowsById(reviews, id)
            /\ lastAgg' = Null
            /\ deleted' = deleted \cup {id}
            /\ resp' = Reply("delete", id, FALSE, 204, Null)
    /\ UNCHANGED <<tableColumns, products, nextId>>
    /\ pending' = Observe(reviews')
    /\ UNCHANGED clientVars

\* the whole handler: DELETE FROM reviews WHERE id = ?, then 404 when
\* affectedRows is 0, else 204
DeleteReview(id, dbFails) ==
    /\ IF dbFails
       THEN /\ resp' = Reply("delete", id, TRUE, 500, "Failed to delete review")
            /\ UNCHANGED <<reviews, lastAgg, deleted>>
       ELSE IF RowsById(reviews, id) = {}
       THEN /\ resp' = Reply("delete", id, FALSE, 404, "Review not found")
            /\ UNCHANGED <<reviews, lastAgg, deleted>>
       ELSE /\ reviews' = reviews \ RowsById(reviews, id)
            /\ lastAgg' = Null
            /\ deleted' = deleted \cup {id}
            /\ resp' = Reply("delete", id, FALSE, 204, Null)
    /\ UNCHANGED <<tableColumns, products, nextId>>
    /\ pending' = Observe(reviews')
    /\ UNCHANGED clientVars

\* --------------------------------------------- frontend mock getReviewStats
mockReviews ==
    <<[id |-> "rev_001", productId |-> "1", source |-> "Amazon", rating |-> 5],
      [id |-> "rev_002", productId |-> "1", source |-> "BestBuy", rating |-> 4],
      [id |-> "rev_003", productId |-> "1", source |-> "Walmart", rating |-> 3],
      [id |-> "rev_004", productId |-> "1", source |-> "Amazon", rating |-> 5],
      [id |-> "rev_005", productId |-> "1", source |-> "BestBuy", rating |-> 2]>>

\* mockReviews.filter(review => review.productId === productId)
FilterByProduct(seq, productId) ==
    SelectSeq(seq, LAMBDA review : review.productId = productId)

\* (obj[key] || 0) + 1
Increment(obj, key) ==
    Assign(obj, key, (IF key \in DOMAIN obj THEN obj[key] ELSE 0) + 1)

EmptyObject == [k \in {} |-> 0]

\* the forEach loop: state is <<ratingSum, ratingDistribution, sourcesDistribution>>
RECURSIVE StatsLoop(_, _)
StatsLoop(acc, seq) ==
    IF seq = <<>> THEN acc
    ELSE LET review == Head(seq) IN
         StatsLoop(<<acc[1] + review.rating,
                     Increment(acc[2], review.rating),
                     Increment(acc[3], review.source)>>,
                   Tail(seq))

\* averageRating is the quotient ratingSum / length, kept as the exact
\* fraction <<ratingSum, length>>; the literal 0 of the empty case is <<0, 1>>
getReviewStats(productId) ==
    LET productReviews == FilterByProduct(mockReviews, productId) IN
    IF Len(productReviews) = 0
    THEN [averageRating |-> <<0, 1>>, totalReviews |-> 0,
          ratingDistribution |-> FreshHistogram,
          sourcesDistribution |-> EmptyObject]
    ELSE LET acc == StatsLoop(<<0, FreshHistogram, EmptyObject>>, productReviews) IN
         [averageRating |-> <<acc[1], Len(productReviews)>>,
          totalReviews |-> Len(productReviews),
          ratingDistribution |-> acc[2],
          sourcesDistribution |-> acc[3]]

\* one call; simulateError throws with probability 0.1
MockGetReviewStats(productId, throws) ==
    /\ resp' = IF throws
               THEN Reply("mock", productId, TRUE, 0, "Network error: Failed to fetch review data")
               ELSE Reply("mock", productId, FALSE, 200, getReviewStats(productId))
    /\ UNCHANGED <<tableColumns, products, reviews, nextId, lastAgg, deleted>>
    /\ UNCHANGED <<pending, clientVars>>

\* ---------------------------------------------------------------- frontend
\* ------------------------------------------------- components/ProductList
\* const [perPage] = useState(9)
perPage == 9

\* values of the category <select>: "All categories" and one category
CategoryFilters == {"", "1"}

\* GET /api/products?page&per_page&category_id as the component documents
\* it: { data: [...], meta: { total, page, per_page, total_pages } }.  The
\* catalog holds products 1..MaxCatalog in id order, products 1 and 2 in
\* category "1".
CatalogIds(c) == IF c = "" THEN 1..MaxCatalog ELSE 1..2

\* the requests in flight without the i-th
Remove(seq, i) == [j \in 1..(Len(seq) - 1) |-> IF j < i THEN seq[j] ELSE seq[j + 1]]

Min(a, b) == IF a < b THEN a ELSE b

Max(a, b) == IF a > b THEN a ELSE b

\* a product row as the list route returns it: no rating fields
Product(id) == [id |-> id, average_rating |-> Null, review_count |-> Null]

ProductsApi(p, c) ==
    LET total == Cardinality(CatalogIds(c))
        first == (p - 1) * perPage + 1
        last == Min(p * perPage, total)
    IN  [data |-> Some([i \in 1..Max(0, last - first + 1) |-> Product(first + i - 1)]),
         meta |-> Some([total |-> total, page |-> p, per_page |-> perPage,
                        total_pages |-> (total + perPage - 1) \div perPage])]

\* a JSON body that carries neither data nor meta
ErrorBody == [data |-> Null, meta |-> Null]

\* Number(s) || 0 for the text of a number with one decimal, in tenths:
\* NaN and 0 both give 0
NumberOrZero(s) ==
    IF \E n \in 0..50 : FixedString(n) = s
    THEN CHOOSE n \in 0..50 : FixedString(n) = s
    ELSE 0

\* the callback of fetchedProducts.map: the product with the ratings of its
\* aggregate response, or the product itself when that request fails
WithRatings(product, rows, fails) ==
    IF fails THEN product
    ELSE LET overall == AggregateData(rows, product.id).overall
         IN  [product EXCEPT
                 !.average_rating = Some(NumberOrZero(overall.average_rating)),
                 !.review_count = Some(OrZero(Some(overall.total_reviews)))]

\* variant: one failed aggregate request rejects Promise.all, and the page
\* keeps the products it showed
WithRatingsOrNothing(fetched, rows, bad, shown) ==
    IF \E i \in 1..Len(fetched) : fetched[i].id \in bad THEN shown
    ELSE [i \in 1..Len(fetched) |-> WithRatings(fetched[i], rows, FALSE)]

\* await Promise.all(fetchedProducts.map(...)); bad: the products whose
\* aggregate request fails
ProductsWithRatings(fetched, rows, bad, shown) ==
    [i \in 1..Len(fetched) |-> WithRatings(fetched[i], rows, fetched[i].id \in bad)]

\* fetchPage(p, c) up to its first await: loading is set and the request
\* leaves; `issued` lists the requests of the current user event
FetchPage(s, p, c) ==
    [s EXCEPT !.loading = TRUE,
              !.inFlight = Append(@, [p |-> p, c |-> c]),
              !.issued = Append(@, [p |-> p, c |-> c])]

\* the two effects after a render of s, the render before having shown
\* prevPage and prevCat.  Effect 1 (deps categoryFilter): setPage(1) and
\* fetchPage(1, categoryFilter); effect 2 (deps page, categoryFilter):
\* fetchPage(page, categoryFilter) with the page this render shows
Effects(s, prevPage, prevCat) ==
    LET filterChanged == s.categoryFilter # prevCat
        a == IF filterChanged
             THEN FetchPage([s EXCEPT !.page = 1], 1, s.categoryFilter)
             ELSE s
    IN  IF filterChanged \/ s.page # prevPage
        THEN FetchPage(a, s.page, s.categoryFilter)
        ELSE a

\* a render and the renders its effects cause: setPage(1) of effect 1
\* renders again when the page shown was not 1, and effect 2 runs again
Commit(s, prevPage, prevCat) ==
    LET b == Effects(s, prevPage, prevCat)
    IN  IF b.page # s.page THEN Effects(b, s.page, s.categoryFilter) ELSE b

\* useState initial values; on mount both effects run
ProductListMount ==
    LET s == [page |-> 1, products |-> <<>>,
              meta |-> [total |-> 0, page |-> 1, per_page |-> perPage, total_pages |-> 1],
              categoryFilter |-> "", loading |-> FALSE,
              inFlight |-> <<>>, issued |-> <<>>, event |-> "mount",
              fromPage |-> 1, faulted |-> FALSE]
    IN  FetchPage(FetchPage(s, 1, ""), 1, "")

\* the filter, the grid and the pagination controls are rendered
ControlsShown == ~productList.loading /\ productList.products # <<>>

\* a user event: the history fields start afresh
UserEvent(s, name) ==
    [s EXCEPT !.issued = <<>>, !.event = name, !.fromPage = s.page,
              !.faulted = FALSE]

StoreUnchanged ==
    UNCHANGED <<tableColumns, products, reviews, nextId, resp, lastAgg, deleted,
                pending, app, productDetail, aggregatorPage, fetcher>>

\* onChange of the category <select>
SelectCategory(c) ==
    /\ ControlsShown
    /\ c # productList.categoryFilter
    /\ Len(productList.inFlight) + 3 <= MaxInFlight
    /\ productList' = Commit([UserEvent(productList, "filter") EXCEPT !.categoryFilter = c],
                             productList.page, productList.categoryFilter)
    /\ StoreUnchanged

\* setPage((p) => Math.max(1, p - 1))
PreviousPage(p) == Max(1, p - 1)

\* variant: setPage((p) => p + 1)
NextPageUnclamped(p, totalPages) == p + 1

\* setPage((p) => Math.min(meta.total_pages, p + 1))
NextPageOf(p, totalPages) == Min(totalPages, p + 1)

\* onClick of Previous, disabled while meta.page === 1
ClickPrevious ==
    /\ ControlsShown
    /\ productList.meta.page # 1
    /\ Len(productList.inFlight) + 1 <= MaxInFlight
    /\ productList' = Commit([UserEvent(productList, "previous") EXCEPT
                                 !.page = PreviousPage(@)],
                             productList.page, productList.categoryFilter)
    /\ StoreUnchanged

\* onClick of Next, disabled while meta.page === meta.total_pages
ClickNext ==
    /\ ControlsShown
    /\ productList.meta.page # productList.meta.total_pages
    /\ Len(productList.inFlight) + 1 <= MaxInFlight
    /\ productList' = Commit([UserEvent(productList, "next") EXCEPT
                                 !.page = NextPageOf(@, productList.meta.total_pages)],
                             productList.page, productList.categoryFilter)
    /\ StoreUnchanged

\* the rest of fetchPage for the request inFlight[i].  outcome "ok": the
\* list route answers, and the aggregate requests of the products in `bad`
\* fail; "error": the route answers with a body without data and meta;
\* "network": fetch or res.json() rejects.  finally: setLoading(false)
SettleFetch(i, outcome, bad) ==
    /\ i \in 1..Len(productList.inFlight)
    /\ LET req == productList.inFlight[i]
           body == IF outcome = "ok" THEN ProductsApi(req.p, req.c) ELSE ErrorBody
           fetched == IF body.data = Null THEN <<>> ELSE body.data[1]
           s == [productList EXCEPT
                    !.loading = FALSE,
                    !.inFlight = Remove(@, i),
                    !.faulted = @ \/ outcome # "ok" \/ bad # {}]
       IN  productList' =
             IF outcome = "network" THEN s
             ELSE [s EXCEPT
                      !.products = IF fetched # <<>>
                                   THEN ProductsWithRatings(fetched, reviews, bad,
                                                            productList.products)
                                   ELSE <<>>,
                      !.meta = IF body.meta # Null THEN body.meta[1]
                               ELSE [total |-> 0, page |-> req.p,
                                     per_page |-> perPage, total_pages |-> 1]]
    /\ StoreUnchanged

\* --------------------------------------------------------------------- App
\* variant: setBackendAvailable(value) without the test of `stopped`
SetBackendAvailableAlways(a, value) == [a EXCEPT !.backendAvailable = Some(value)]

\* if (!stopped) setBackendAvailable(value)
SetBackendAvailable(a, value) ==
    IF a.stopped THEN a ELSE [a EXCEPT !.backendAvailable = Some(value)]

\* check() up to its await: the request to /health leaves
StartCheck(a) == [a EXCEPT !.inFlight = @ + 1, !.started = @ + 1]

\* useState(null); the effect calls check() and arms the interval
AppMount ==
    StartCheck([backendAvailable |-> Null, stopped |-> FALSE, interval |-> TRUE,
                inFlight |-> 0, started |-> 0, settledLate |-> FALSE])

AppUnchanged ==
    UNCHANGED <<tableColumns, products, reviews, nextId, resp, lastAgg, deleted,
                pending, productList, productDetail, aggregatorPage, fetcher>>

\* the interval fires: check()
IntervalFires ==
    /\ app.interval
    /\ app.started < MaxChecks
    /\ app' = StartCheck(app)
    /\ AppUnchanged

\* a request to /health settles: with a response whose ok is `ok`, or, when
\* rejects, with a network error
CheckSettles(ok, rejects) ==
    /\ app.inFlight > 0
    /\ app' = [SetBackendAvailable(app, IF rejects THEN FALSE ELSE ok) EXCEPT
                  !.inFlight = @ - 1,
                  !.settledLate = @ \/ app.stopped]
    /\ AppUnchanged

\* the effect's cleanup: stopped = true; clearInterval(id)
Cleanup(a) == [a EXCEPT !.stopped = TRUE, !.interval = FALSE]

\* App unmounts
Unmount ==
    /\ ~app.stopped
    /\ app' = Cleanup(app)
    /\ AppUnchanged

\* -------------------------------------------- components/ProductDetail
\* the reviews effect for the route's id: setReviewsLoading(true) and the
\* two requests of Promise.all leave
StartReviewsEffect(s) ==
    [s EXCEPT !.reviewsLoading = TRUE,
              !.inFlight = Append(@, [id |-> s.id, stats |-> Null, list |-> Null])]

\* useState initial values; on mount the effect runs for /product/1
ProductDetailMount ==
    StartReviewsEffect([id |-> 1, reviewStats |-> Null, reviews |-> <<>>,
                        reviewsLoading |-> FALSE, inFlight |-> <<>>,
                        shownFor |-> Null, changedInFlight |-> FALSE,
                        faulted |-> FALSE])

DetailUnchanged ==
    UNCHANGED <<tableColumns, products, reviews, nextId, resp, lastAgg, deleted,
                pending, productList, app, aggregatorPage, fetcher>>

\* the route changes to /product/id: the effect runs again; the requests of
\* the effect before stay in flight
Navigate(id) ==
    /\ id # productDetail.id
    /\ Len(productDetail.inFlight) < MaxInFlight
    /\ productDetail' =
          StartReviewsEffect([productDetail EXCEPT
              !.id = id,
              !.changedInFlight = productDetail.inFlight # <<>>,
              !.faulted = FALSE])
    /\ DetailUnchanged

\* .then(([stats, reviewsList]) => { setReviewStats(stats); setReviews(reviewsList) })
Apply(s, req) ==
    [s EXCEPT !.reviewStats = req.stats[1], !.reviews = req.list[1],
              !.shownFor = Some(req.id)]

\* one request of the i-th Promise.all settles with `value`; when it is the
\* second of the two, the .then and the .finally run
Arrives(i, field, value, failed) ==
    /\ i \in 1..Len(productDetail.inFlight)
    /\ productDetail.inFlight[i][field] = Null
    /\ LET req == [productDetail.inFlight[i] EXCEPT ![field] = Some(value)]
           s == [productDetail EXCEPT !.faulted = @ \/ failed]
       IN  productDetail' =
             IF req.stats = Null \/ req.list = Null
             THEN [s EXCEPT !.inFlight[i] = req]
             ELSE [Apply(s, req) EXCEPT !.inFlight = Remove(@, i),
                                        !.reviewsLoading = FALSE]
    /\ DetailUnchanged

\* fetch(`/api/reviews/aggregate/${id}`): data?.data || null, null when the
\* response is not ok or the request fails
StatsArrives(i, fails) ==
    /\ i \in 1..Len(productDetail.inFlight)
    /\ Arrives(i, "stats",
               IF fails THEN Null
               ELSE Some(AggregateData(reviews, productDetail.inFlight[i].id)),
               fails)

\* fetch(`/api/reviews?product_id=${id}&limit=20`): data?.data || [], []
\* when the response is not ok or the request fails
DetailListArrives(i, fails) ==
    /\ i \in 1..Len(productDetail.inFlight)
    /\ LET q == [NoQuery EXCEPT !.product_id = Some(productDetail.inFlight[i].id),
                                !.limit = Some(20)]
       IN  \E order \in OrderByCreatedDesc(ListWhere(reviews, q)) :
              Arrives(i, "list",
                      IF fails THEN <<>>
                      ELSE LimitOffset(order, LimitOf(q), OffsetOf(q)),
                      fails)

\* ------------------------------- components/reviews/ReviewAggregatorPage
\* the message of the error simulateError throws
NetworkError == "Network error: Failed to fetch review data"

\* fetchProductReviews(productId) once its delay has passed
fetchProductReviews(productId) == FilterByProduct(mockReviews, productId)

\* the keys of sourcesDistribution in insertion order: the sources of the
\* product's reviews in order of first appearance
RECURSIVE FirstSeen(_, _)
FirstSeen(seq, seen) ==
    IF seq = <<>> THEN <<>>
    ELSE IF Head(seq).source \in seen THEN FirstSeen(Tail(seq), seen)
    ELSE <<Head(seq).source>> \o FirstSeen(Tail(seq), seen \cup {Head(seq).source})

\* +(x || 0).toFixed(1) for the quotient x = q[1] / q[2], in tenths; no
\* quotient of a rating sum by a count below 20 that is not a multiple of 4
\* lies halfway between two tenths
QuotientToFixed1(q) == (20 * q[1] + q[2]) \div (2 * q[2])

\* ([source, count]) => ({ source, count, average: 0 })
Entry(source, count, productId) == [source |-> source, count |-> count, average |-> 0]

\* the object handed to setStats for the result s of getReviewStats
StatsOf(s, productId) ==
    LET keys == FirstSeen(FilterByProduct(mockReviews, productId), {})
    IN  [overallAverage |-> QuotientToFixed1(s.averageRating),
         totalReviews |-> s.totalReviews,
         sourceBreakdown |->
            [i \in 1..Len(keys) |-> Entry(keys[i], s.sourcesDistribution[keys[i]], productId)],
         ratingHistogram |-> s.ratingDistribution]

\* new Map(reviews.map(r => [r.id, r])), newReviews.forEach(nr => map.set(nr.id, nr)),
\* Array.from(map.values())
RECURSIVE Merge(_, _)
Merge(old, new) ==
    IF new = <<>> THEN old
    ELSE LET nr == Head(new)
             at == {i \in 1..Len(old) : old[i].id = nr.id}
         IN  Merge(IF at = {} THEN Append(old, nr)
                   ELSE [i \in 1..Len(old) |-> IF i \in at THEN nr ELSE old[i]],
                   Tail(new))

\* useState initial values for the default productId; on mount loadAll
\* runs: setLoading(true), setError(null), fetchProductReviews is awaited
AggregatorPageMount ==
    [productId |-> "1", reviews |-> <<>>, stats |-> Null, loading |-> TRUE,
     error |-> Null, pc |-> "reviews", refreshing |-> 0]

PageUnchanged ==
    UNCHANGED <<tableColumns, products, reviews, nextId, resp, lastAgg, deleted,
                pending, productList, app, productDetail>>

\* loadAll: fetchProductReviews settles; on a throw the catch and the
\* finally run
LoadReviewsSettles(throws) ==
    /\ aggregatorPage.pc = "reviews"
    /\ aggregatorPage' =
          IF throws
          THEN [aggregatorPage EXCEPT !.error = Some(NetworkError),
                                      !.loading = FALSE, !.pc = "done"]
          ELSE [aggregatorPage EXCEPT !.pc = "stats"]
    /\ UNCHANGED fetcher
    /\ PageUnchanged

\* loadAll: getReviewStats settles; setReviews and setStats, or the catch,
\* then the finally
LoadStatsSettles(throws) ==
    /\ aggregatorPage.pc = "stats"
    /\ aggregatorPage' =
          IF throws
          THEN [aggregatorPage EXCEPT !.error = Some(NetworkError),
                                      !.loading = FALSE, !.pc = "done"]
          ELSE [aggregatorPage EXCEPT
                   !.reviews = fetchProductReviews(aggregatorPage.productId),
                   !.stats = Some(StatsOf(getReviewStats(aggregatorPage.productId),
                                          aggregatorPage.productId)),
                   !.loading = FALSE, !.pc = "done"]
    /\ UNCHANGED fetcher
    /\ PageUnchanged

\* handleNewReviews up to its await: the reviews of the render that built
\* the callback are merged with the new ones, and getReviewStats is awaited
handleNewReviews(page, rendered, newReviews) ==
    [page EXCEPT !.reviews = Merge(rendered, newReviews), !.refreshing = @ + 1]

\* handleNewReviews: getReviewStats settles; setStats, or console.warn
RefreshStatsSettles(throws) ==
    /\ aggregatorPage.refreshing > 0
    /\ aggregatorPage' =
          IF throws
          THEN [aggregatorPage EXCEPT !.refreshing = @ - 1]
          ELSE [aggregatorPage EXCEPT
                   !.stats = Some(StatsOf(getReviewStats(aggregatorPage.productId),
                                          aggregatorPage.productId)),
                   !.refreshing = @ - 1]
    /\ UNCHANGED fetcher
    /\ PageUnchanged

\* ------------------------------------------ components/reviews/ReviewFetcher
\* useState initial values; `calls`, `notified` and `outcome` record the
\* run of handleFetch under way or just finished, `runs` counts the runs
FetcherMount ==
    [loading |-> FALSE, message |-> Null, error |-> Null, pc |-> "idle",
     rendered |-> <<>>, calls |-> <<>>, notified |-> FALSE, outcome |-> "none",
     runs |-> 0]

\* onClick of the button, disabled while loading: handleFetch up to its
\* first await; the callback of the current render is the one it will call
ClickFetch ==
    /\ ~fetcher.loading
    /\ fetcher.runs < MaxRuns
    /\ fetcher' = [fetcher EXCEPT !.loading = TRUE, !.message = Null, !.error = Null,
                                  !.pc = "trigger", !.rendered = aggregatorPage.reviews,
                                  !.calls = <<"triggerReviewFetch">>,
                                  !.notified = FALSE, !.outcome = "running",
                                  !.runs = @ + 1]
    /\ UNCHANGED aggregatorPage
    /\ PageUnchanged

\* variant: the catch block without the finally after it
RejectedLoadingStuck(f, err) ==
    [f EXCEPT !.error = Some(err), !.pc = "idle", !.outcome = "rejected"]

\* catch (err) { setError(err?.message || "Failed to fetch reviews") }
\* finally { setLoading(false) }
Rejected(f, err) ==
    [f EXCEPT !.error = Some(err), !.loading = FALSE, !.pc = "idle",
              !.outcome = "rejected"]

\* triggerReviewFetch settles; when it resolves fetchProductReviews is
\* called
TriggerSettles(throws) ==
    /\ fetcher.pc = "trigger"
    /\ fetcher' =
          IF throws THEN Rejected(fetcher, NetworkError)
          ELSE [fetcher EXCEPT !.pc = "reviews",
                               !.calls = Append(@, "fetchProductReviews")]
    /\ UNCHANGED aggregatorPage
    /\ PageUnchanged

\* fetchProductReviews settles; setMessage, onReviewsFetched(reviews) and
\* the finally, or the catch and the finally
FetchSettles(throws) ==
    /\ fetcher.pc = "reviews"
    /\ IF throws
       THEN /\ fetcher' = Rejected(fetcher, NetworkError)
            /\ UNCHANGED aggregatorPage
       ELSE LET fetched == fetchProductReviews(aggregatorPage.productId)
            IN  /\ fetcher' = [fetcher EXCEPT
                                  !.message = Some([fetched |-> Len(fetched)]),
                                  !.notified = TRUE, !.loading = FALSE,
                                  !.pc = "idle", !.outcome = "resolved"]
                /\ aggregatorPage' =
                      handleNewReviews(aggregatorPage, fetcher.rendered, fetched)
    /\ PageUnchanged

\* the 3000 ms timer armed while message or error is set
TimeoutFires ==
    /\ fetcher.message # Null \/ fetcher.error # Null
    /\ fetcher' = [fetcher EXCEPT !.message = Null, !.error = Null]
    /\ UNCHANGED aggregatorPage
    /\ PageUnchanged

\* ------------------------------------------------------------ specification
Init ==
    /\ tableColumns \in {MigrationColumns, InitSqlColumns}
    /\ products = ProductIds
    /\ reviews = {}
    /\ nextId = 1
    /\ resp = Reply("none", Null, FALSE, 0, Null)
    /\ lastAgg = Null
    /\ deleted = {}
    /\ pending = Null
    /\ productList = ProductListMount
    /\ app = AppMount
    /\ productDetail = ProductDetailMount
    /\ aggregatorPage = AggregatorPageMount
    /\ fetcher = FetcherMount

\* The REST handlers of the review store over a store filled by SQL and POST.
Next ==
    \/ \E p \in ProductIds :
          nextId <= MaxRows /\ SqlInsert(p, "Walmart", 4)
    \/ \E body \in Bodies, dbFails \in BOOLEAN,
          t \in {LatestStamp(reviews), LatestStamp(reviews) + 1} :
          PostReview(body, dbFails, t)
    \/ \E id \in 1..(MaxRows + 1), dbFails \in BOOLEAN : GetReview(id, dbFails)
    \/ \E id \in 1..(MaxRows + 1), dbFails \in BOOLEAN : DeleteReview(id, dbFails)

Spec == Init /\ [][Next]_vars

\* position of a row in the script's VALUES list, which is grouped by
\* product, then source, then rating
SourceIndex(s) == CHOOSE i \in 1..Len(SourceOrder) : SourceOrder[i] = s

ScriptKey(p, s, v) == (p * 10 + SourceIndex(s)) * 10 + v

InScriptOrder(p, s, v) ==
    \A r \in reviews : ScriptKey(r.product_id, r.source, r.rating) <= ScriptKey(p, s, v)

\* The aggregator over every review multiset of up to MaxSeed rows.  The
\* aggregate queries read neither id nor created_at, so inserting in script
\* order reaches every multiset of (product, source, rating).
NextAgg ==
    \/ \E pid \in QueryIds, failAt \in 0..3 : Aggregate(pid, failAt)
    \/ \E p \in ProductIds, s \in Sources, v \in Ratings :
          nextId <= MaxSeed /\ InScriptOrder(p, s, v) /\ SqlInsert(p, s, v)
    \/ \E productId \in {"1", "2"}, throws \in BOOLEAN :
          MockGetReviewStats(productId, throws)

\* the table as the migration script creates it
InitAgg == Init /\ tableColumns = MigrationColumns

SpecAgg == InitAgg /\ [][NextAgg]_vars

\* The aggregator over every rating multiset of up to MaxCount reviews of
\* one product and one source.
NextRound ==
    \/ Aggregate(1, 0)
    \/ \E v \in Ratings :
          nextId <= MaxCount /\ InScriptOrder(1, "Amazon", v) /\ SqlInsert(1, "Amazon", v)

SpecRound == InitAgg /\ [][NextRound]_vars

\* query strings of GET /api/reviews: each value absent or supplied
ListQueries ==
    [product_id : {Null, Some(1)}, source : {Null, Some("Walmart")},
     min_rating : {Null, Some(4)}, max_rating : {Null, Some(3), Some(4)},
     limit : {Null, Some(1)}, offset : {Null, Some(1)}]

\* The list handler over stores of up to MaxRows rows of two products, two
\* sources and two ratings, with equal and with distinct created_at.
NextList ==
    \/ \E p \in ProductIds :
          nextId <= MaxRows /\ SqlInsert(p, "Walmart", 4)
    \/ nextId <= MaxRows /\ SqlInsertLater(1, "Amazon", 3)
    \/ \E q \in ListQueries : ListReviews(q, FALSE)
    \/ ListReviews(NoQuery, TRUE)

SpecList == InitAgg /\ [][NextList]_vars

\* pages of GET /api/reviews without filter
PageQueries ==
    {[NoQuery EXCEPT !.limit = l, !.offset = o] :
        l \in {Null, Some(0), Some(2), Some(60), Some(-1)},
        o \in {Null, Some(1), Some(50)}}

\* The list handler over a store of up to MaxPage rows, more than the
\* default limit, each inserted later than the one before.
NextPage ==
    \/ nextId <= MaxPage /\ SqlInsertLater(1, "Amazon", 3)
    \/ \E q \in PageQueries : ListReviews(q, FALSE)

SpecPage == InitAgg /\ [][NextPage]_vars

\* Product deletion under the list and aggregate handlers, over stores of
\* up to MaxRows rows.
NextCascade ==
    \/ \E p \in ProductIds :
          nextId <= MaxRows /\ SqlInsert(p, "Walmart", 4)
    \/ \E p \in ProductIds : DeleteProduct(p)
    \/ \E pid \in QueryIds :
          ListReviews([NoQuery EXCEPT !.product_id = Some(pid)], FALSE)
    \/ \E pid \in QueryIds : Aggregate(pid, 0)

SpecCascade == InitAgg /\ [][NextCascade]_vars

\* The aggregate handler read by read, with inserts and deletes of the
\* product's reviews between the reads.
NextInterleave ==
    \/ \E dbFails \in BOOLEAN : AggregateReadOverall(1, dbFails)
    \/ \E dbFails \in BOOLEAN : AggregateReadSources(dbFails)
    \/ \E dbFails \in BOOLEAN : AggregateReadHistogram(dbFails)
    \/ \E s \in {"Amazon", "Walmart"}, v \in {4, 5} :
          nextId <= MaxRows /\ SqlInsert(1, s, v)
    \/ \E id \in 1..MaxRows : DeleteReview(id, FALSE)

SpecInterleave == InitAgg /\ [][NextInterleave]_vars

\* products whose aggregate request may fail
FailCandidates == {1, 2}

\* The product list under filter changes, Previous and Next clicks and its
\* requests settling in any order, over stores of up to MaxRows reviews.
NextProductList ==
    \/ \E c \in CategoryFilters : SelectCategory(c)
    \/ ClickPrevious
    \/ ClickNext
    \/ \E i \in 1..MaxInFlight, bad \in SUBSET FailCandidates :
          SettleFetch(i, "ok", bad)
    \/ \E i \in 1..MaxInFlight, outcome \in {"error", "network"} :
          SettleFetch(i, outcome, {})
    \/ \E p \in ProductIds : nextId <= MaxRows /\ SqlInsert(p, "Amazon", 3 + p)

SpecProductList == InitAgg /\ [][NextProductList]_vars

\* The product list under Previous and Next clicks and its requests settling
\* in any order, the filter left at "All categories".
NextPaging ==
    \/ ClickPrevious
    \/ ClickNext
    \/ \E i \in 1..MaxInFlight, bad \in SUBSET FailCandidates :
          SettleFetch(i, "ok", bad)
    \/ \E i \in 1..MaxInFlight, outcome \in {"error", "network"} :
          SettleFetch(i, outcome, {})
    \/ \E p \in ProductIds : nextId <= MaxRows /\ SqlInsert(p, "Amazon", 3 + p)

SpecPaging == InitAgg /\ [][NextPaging]_vars

\* The health-check effect of App: the interval, the requests in flight
\* and the cleanup.
NextHealth ==
    \/ IntervalFires
    \/ \E ok \in BOOLEAN : CheckSettles(ok, FALSE)
    \/ CheckSettles(FALSE, TRUE)
    \/ Unmount

SpecHealth == InitAgg /\ [][NextHealth]_vars

\* The reviews effect of ProductDetail under route changes between two
\* products, its requests settling in any order, over stores of up to
\* MaxRows reviews.
NextDetail ==
    \/ \E id \in ProductIds : Navigate(id)
    \/ \E i \in 1..MaxInFlight, fails \in BOOLEAN : StatsArrives(i, fails)
    \/ \E i \in 1..MaxInFlight, fails \in BOOLEAN : DetailListArrives(i, fails)
    \/ \E p \in ProductIds : nextId <= MaxRows /\ SqlInsert(p, "Amazon", 3 + p)

SpecDetail == InitAgg /\ [][NextDetail]_vars

\* ReviewAggregatorPage with its ReviewFetcher over the mock review service.
NextReviewsPage ==
    \/ \E throws \in BOOLEAN : LoadReviewsSettles(throws)
    \/ \E throws \in BOOLEAN : LoadStatsSettles(throws)
    \/ \E throws \in BOOLEAN : RefreshStatsSettles(throws)
    \/ ClickFetch
    \/ \E throws \in BOOLEAN : TriggerSettles(throws)
    \/ \E throws \in BOOLEAN : FetchSettles(throws)
    \/ TimeoutFires

SpecReviewsPage == InitAgg /\ [][NextReviewsPage]_vars

\* ================================================================== claims
RECURSIVE SumOver(_, _)
SumOver(f, D) ==
    IF D = {} THEN 0
    ELSE LET k == CHOOSE x \in D : TRUE IN f[k] + SumOver(f, D \ {k})

\* sum of the counts of an object
ObjectTotal(obj) == SumOver(obj, DOMAIN obj)

\* sum of source_breakdown[*].review_count
BreakdownTotal(sb) == SumOver([i \in DOMAIN sb |-> sb[i].review_count], DOMAIN sb)

AggregateOk == resp.op = "aggregate" /\ resp.status = 200

\* C1: in every aggregate produced, the five histogram counts sum to
\* total_reviews and the per-source counts sum to total_reviews; the same
\* for ratingDistribution and sourcesDistribution of the mock getReviewStats.
C1_CountsSumToTotal ==
    /\ AggregateOk =>
          /\ ObjectTotal(resp.data.rating_histogram) = resp.data.overall.total_reviews
          /\ BreakdownTotal(resp.data.source_breakdown) = resp.data.overall.total_reviews
    /\ (resp.op = "mock" /\ resp.status = 200) =>
          /\ ObjectTotal(resp.data.ratingDistribution) = resp.data.totalReviews
          /\ ObjectTotal(resp.data.sourcesDistribution) = resp.data.totalReviews

C1_Witness ==
    /\ AggregateOk
    /\ resp.data.overall.total_reviews >= 2
    /\ Len(resp.data.source_breakdown) >= 2
    /\ \E v \in Ratings : resp.data.rating_histogram[v] >= 2

\* C2: for a product id without reviews, existing or not, an aggregate
\* request that the store serves is answered 200 with total_reviews 0,
\* average_rating "0.0", min_rating 0, max_rating 0, an empty
\* source_breakdown and a histogram of five zeros.
C2_EmptyAggregate ==
    (resp.op = "aggregate" /\ ~resp.fault /\ WhereProduct(reviews, resp.req) = {}) =>
        /\ resp.status = 200
        /\ resp.data.overall = [average_rating |-> "0.0", total_reviews |-> 0,
                                min_rating |-> 0, max_rating |-> 0]
        /\ resp.data.source_breakdown = <<>>
        /\ DOMAIN resp.data.rating_histogram = 1..5
        /\ \A v \in 1..5 : resp.data.rating_histogram[v] = 0

C2_Witness ==
    /\ AggregateOk
    /\ resp.req \notin products
    /\ reviews # {}
    /\ resp.data.overall.total_reviews = 0

\* the mean sum/count rounded to one decimal (half away from zero), in tenths
RoundedMean(sum, count) == (20 * sum + count) \div (2 * count)

MeanString(S) == FixedString(RoundedMean(SumRating(S), Cardinality(S)))

\* C3: for a non-empty review set the aggregate is the reference aggregate:
\* total_reviews the number of reviews, average_rating their mean rounded to
\* one decimal, one source_breakdown entry per source with that source's
\* count and rounded mean, rating_histogram[r] the number of reviews rated r.
C3_AggregateIsReference ==
    (AggregateOk /\ WhereProduct(reviews, resp.req) # {}) =>
        LET S == WhereProduct(reviews, resp.req)
            sb == resp.data.source_breakdown
        IN  /\ resp.data.overall.total_reviews = Cardinality(S)
            /\ resp.data.overall.average_rating = MeanString(S)
            /\ {sb[i] : i \in DOMAIN sb} =
                  {[source |-> s,
                    average_rating |-> MeanString({r \in S : r.source = s}),
                    review_count |-> Cardinality({r \in S : r.source = s})]
                      : s \in {r.source : r \in S}}
            /\ \A v \in 1..5 :
                  resp.data.rating_histogram[v] = Cardinality({r \in S : r.rating = v})

\* C4: with total_reviews > 0, average_rating is a one-decimal number in
\* [1.0, 5.0], min_rating <= average_rating <= max_rating, and min_rating
\* and max_rating are in 1..5.
C4_AverageInRange ==
    (AggregateOk /\ resp.data.overall.total_reviews > 0) =>
        LET o == resp.data.overall IN
        /\ o.min_rating \in 1..5
        /\ o.max_rating \in 1..5
        /\ \E n \in 10..50 :
              /\ o.average_rating = FixedString(n)
              /\ 10 * o.min_rating <= n
              /\ n <= 10 * o.max_rating

C4_Witness ==
    /\ AggregateOk
    /\ resp.data.overall.min_rating < resp.data.overall.max_rating
    /\ resp.data.overall.average_rating = "3.7"

\* C5: an aggregate of product p answered after an earlier aggregate of p,
\* with no write to the store since that earlier request arrived, carries
\* the same data (overall, source_breakdown in the same order, histogram).
C5_Idempotent ==
    (AggregateOk /\ resp.prev # Null /\ resp.prev[1] = resp.req) =>
        resp.data = resp.prev[2]

C5_Witness ==
    /\ AggregateOk
    /\ resp.prev # Null
    /\ resp.prev[1] = resp.req
    /\ Len(resp.data.source_breakdown) >= 2

\* C6: an aggregate request, answered 200 or 500, leaves the rows of
\* reviews, the rows of products and the AUTO_INCREMENT counter unchanged.
C6_AggregateReadOnly ==
    [][resp'.op = "aggregate" => UNCHANGED <<products, reviews, nextId>>]_vars

C6_Witness ==
    /\ resp.op = "aggregate"
    /\ resp.fault
    /\ reviews # {}
    /\ reviews = resp.pre

\* a required field of the body is absent
AnyRequiredAbsent(body) ==
    \/ body.product_id = Null
    \/ body.source = Null
    \/ body.reviewer_name = Null
    \/ body.rating.kind = "undef"
    \/ body.title = Null
    \/ body.content = Null

\* the request added exactly one row
AddedOneRow == \E row \in reviews : row \notin resp.pre /\ reviews = resp.pre \cup {row}

\* C7: an insert whose rating is a number outside [1,5] is answered 400 and
\* adds no review; an insert with rating 3 and every required field present
\* (a source of the enumeration, an existing product, the database up) is
\* answered 201 and adds exactly one review.
C7_InsertValidatesRating ==
    (resp.op = "post" /\ ~resp.fault) =>
        /\ (resp.req.rating.kind = "num" /\ resp.req.rating.num \notin 1..5) =>
              (resp.status = 400 /\ reviews = resp.pre)
        /\ (/\ resp.req.rating = [kind |-> "num", num |-> 3]
            /\ ~AnyRequiredAbsent(resp.req)
            /\ resp.req.source[1] \in Sources
            /\ resp.req.product_id[1] \in products) =>
              (resp.status = 201 /\ AddedOneRow)

\* C8: an insert with a required field absent is answered 400 and leaves
\* the review store unchanged.
C8_MissingFieldRejected ==
    (resp.op = "post" /\ AnyRequiredAbsent(resp.req)) =>
        (resp.status = 400 /\ reviews = resp.pre)

C8_Witness ==
    /\ resp.op = "post"
    /\ resp.req = [ValidBody EXCEPT !.title = Null]
    /\ resp.status = 400
    /\ reviews # {}

\* C9: the response of a successful insert carries an identifier no other
\* review has, the creation timestamp set by the server, and the field
\* values of the row that get(id) returns.
C9_InsertReturnsStoredReview ==
    (resp.op = "post" /\ resp.status = 201) =>
        /\ resp.data.id \notin {r.id : r \in resp.pre}
        /\ RowsById(reviews, resp.data.id) # {}
        /\ "created_at" \in DOMAIN resp.data
        /\ \A row \in RowsById(reviews, resp.data.id) :
              \A f \in DOMAIN row \cap DOMAIN resp.data : resp.data[f] = row[f]

\* the body is malformed or out of range
Malformed(body) ==
    \/ AnyRequiredAbsent(body)
    \/ body.rating.kind # "num"
    \/ body.rating.num \notin 1..5
    \/ body.source[1] \notin Sources

\* C10: an insert whose body is malformed or out of range is answered with
\* a 4xx status, never a 5xx, and inserts nothing.
C10_MalformedIs4xx ==
    (resp.op = "post" /\ ~resp.fault /\ Malformed(resp.req)) =>
        (resp.status \in 400..499 /\ reviews = resp.pre)

\* C11: a delete of an id no review has is answered 404 and leaves the store
\* unchanged; a delete of an id a review has is answered 204 and removes
\* that one review, every other review staying as it was.
C11_DeleteRemovesExactlyOne ==
    (resp.op = "delete" /\ ~resp.fault) =>
        IF RowsById(resp.pre, resp.req) = {}
        THEN resp.status = 404 /\ reviews = resp.pre
        ELSE /\ resp.status = 204
             /\ Cardinality(RowsById(resp.pre, resp.req)) = 1
             /\ reviews = resp.pre \ RowsById(resp.pre, resp.req)

C11_Witness ==
    /\ resp.op = "delete"
    /\ resp.status = 204
    /\ reviews # {}
    /\ Cardinality(resp.pre) = Cardinality(reviews) + 1

\* C12: once a delete of an id has succeeded, every later get and every
\* later delete of that id is answered 404, whatever was inserted or deleted
\* in between, and no row inserted later receives that id.
C12_DeletionPermanent ==
    [][/\ (resp'.op \in {"get", "delete"} /\ ~resp'.fault /\ resp'.req \in deleted) =>
             resp'.status = 404
       /\ \A r \in reviews' \ reviews : r.id \notin deleted]_vars

C12_Witness ==
    /\ resp.op = "delete"
    /\ resp.status = 404
    /\ resp.req \in deleted
    /\ \E r \in reviews : r.id > resp.req

\* C13: a list response carries at most `limit` reviews of the store, at
\* most 50 when no limit is given, in order of created_at descending, and
\* meta.count is the number of reviews it carries.
C13_ListLimitedAndOrdered ==
    (resp.op = "list" /\ resp.status = 200) =>
        LET page == resp.data.data IN
        /\ Len(page) <= (IF resp.req.limit = Null THEN 50 ELSE resp.req.limit[1])
        /\ \A i \in DOMAIN page : page[i] \in resp.pre
        /\ \A i, j \in DOMAIN page : i < j => page[i].created_at >= page[j].created_at
        /\ resp.data.meta.count = Len(page)

C13_Witness ==
    /\ resp.op = "list"
    /\ resp.status = 200
    /\ resp.req.limit = Null
    /\ Cardinality(resp.pre) > 50
    /\ Len(resp.data.data) = 50

\* the review meets every criterion the query supplies
MatchesEvery(r, q) ==
    /\ q.product_id # Null => r.product_id = q.product_id[1]
    /\ q.source # Null => r.source = q.source[1]
    /\ q.min_rating # Null => r.rating >= q.min_rating[1]
    /\ q.max_rating # Null => r.rating <= q.max_rating[1]

\* C14: without limit and offset (the store holding fewer rows than the
\* default limit) the list response carries, once each, exactly the reviews
\* that meet every supplied criterion among product_id, source, min_rating
\* and max_rating; a criterion not supplied excludes nothing.
C14_ListFiltersConjunction ==
    (resp.op = "list" /\ resp.status = 200 /\ resp.req.limit = Null /\ resp.req.offset = Null) =>
        LET page == resp.data.data
            matching == {r \in resp.pre : MatchesEvery(r, resp.req)}
        IN  /\ {page[i] : i \in DOMAIN page} = matching
            /\ Len(page) = Cardinality(matching)

C14_Witness ==
    /\ resp.op = "list"
    /\ resp.status = 200
    /\ resp.req.limit = Null
    /\ resp.req.offset = Null
    /\ resp.req.product_id = Some(1)
    /\ resp.req.source = Some("Walmart")
    /\ resp.req.min_rating = Some(4)
    /\ resp.req.max_rating = Some(4)
    /\ Len(resp.data.data) = 1
    /\ Cardinality(resp.pre) >= 2

\* C15: after any sequence of insert and delete requests, valid or not,
\* every stored review has a rating in 1..5 and a source among Amazon,
\* BestBuy and Walmart.
C15_StoredRatingAndSourceValid ==
    \A r \in reviews : r.rating \in 1..5 /\ r.source \in {"Amazon", "BestBuy", "Walmart"}

C15_Witness ==
    /\ resp.op = "post"
    /\ resp.req.source = Some("eBay")
    /\ ~resp.fault
    /\ InsertColumns \subseteq tableColumns
    /\ deleted # {}
    /\ \E r \in reviews : r.source = "Amazon"

\* C16: after any sequence of insert requests, every stored review has a
\* helpful-vote counter >= 0.
C16_HelpfulVotesNonNegative ==
    \A r \in reviews : r.helpful_votes >= 0

\* the aggregate of a product without reviews
EmptyAggregate ==
    [overall |-> [average_rating |-> "0.0", total_reviews |-> 0,
                  min_rating |-> 0, max_rating |-> 0],
     source_breakdown |-> <<>>,
     rating_histogram |-> [v \in 1..5 |-> 0]]

\* C17: every stored review's product_id is the id of an existing product,
\* and once a product is deleted, a list filtered by its id is empty and its
\* aggregate is the empty aggregate.
C17_ProductDeleteCascades ==
    /\ \A r \in reviews : r.product_id \in products
    /\ (/\ resp.op = "list"
        /\ resp.status = 200
        /\ resp.req.product_id # Null
        /\ resp.req.product_id[1] \in ProductIds \ products) =>
          (resp.data.data = <<>> /\ resp.data.meta.count = 0)
    /\ (AggregateOk /\ resp.req \in ProductIds \ products) =>
          resp.data = EmptyAggregate

C17_Witness ==
    /\ AggregateOk
    /\ resp.req \in ProductIds \ products
    /\ nextId - 1 > Cardinality(reviews)
    /\ reviews # {}

\* C18: an aggregate request under which a store read fails is answered
\* with a 5xx status and the error message, never with an aggregate, and
\* leaves the store as it was; the router keeps answering, and every
\* aggregate request the store serves, for any product, before or after a
\* failure, is answered 200 with the aggregate of the rows then stored.
C18_AggregateFailureIsolated ==
    /\ []((resp.op = "aggregate" /\ resp.fault) =>
            /\ resp.status \in 500..599
            /\ resp.data = "Failed to fetch review aggregate"
            /\ reviews = resp.pre
            /\ lastAgg = resp.prev
            /\ \A pid \in QueryIds : ENABLED Aggregate(pid, 0))
    /\ [][(resp'.op = "aggregate" /\ ~resp'.fault) =>
             (resp'.status = 200 /\ resp'.data = AggregateData(reviews, resp'.req))]_vars

C18_Witness ==
    /\ resp.op = "aggregate"
    /\ resp.fault
    /\ WhereProduct(reviews, resp.req) # {}
    /\ resp.prev # Null
    /\ resp.prev[1] # resp.req
    /\ resp.prev[2].overall.total_reviews > 0

\* C19: the rating_histogram of every aggregate response has exactly the
\* keys 1, 2, 3, 4, 5, each with a count >= 0, and 0 for a rating that no
\* review of the product has.
C19_HistogramHasFiveKeys ==
    AggregateOk =>
        LET hist == resp.data.rating_histogram IN
        /\ DOMAIN hist = {1, 2, 3, 4, 5}
        /\ \A v \in {1, 2, 3, 4, 5} :
              /\ hist[v] \in Nat
              /\ (\A r \in WhereProduct(reviews, resp.req) : r.rating # v) => hist[v] = 0

C19_Witness ==
    /\ AggregateOk
    /\ resp.data.rating_histogram[5] = 1
    /\ resp.data.rating_histogram[4] = 0
    /\ resp.data.rating_histogram[1] = 1
    /\ resp.data.overall.total_reviews = 2

\* code of the first letter of a source name; the three names differ there
InitialCode(s) ==
    CASE s = "Amazon" -> 65
      [] s = "BestBuy" -> 66
      [] s = "Walmart" -> 87

\* C20: the source_breakdown of every aggregate response has one entry for
\* each source that occurs among the product's reviews and no other entry,
\* and the entries are in alphabetical order of source name.
C20_BreakdownPerSourceAlphabetical ==
    AggregateOk =>
        LET sb == resp.data.source_breakdown
            present == {r.source : r \in WhereProduct(reviews, resp.req)}
        IN  /\ {sb[i].source : i \in DOMAIN sb} = present
            /\ Len(sb) = Cardinality(present)
            /\ \A i, j \in DOMAIN sb :
                  i < j => InitialCode(sb[i].source) < InitialCode(sb[j].source)

C20_Witness ==
    /\ AggregateOk
    /\ Len(resp.data.source_breakdown) = 2
    /\ resp.data.source_breakdown[1].source = "Amazon"
    /\ resp.data.source_breakdown[2].source = "Walmart"
    /\ resp.data.source_breakdown[2].review_count = 1

\* C21: the response of an aggregate request whose three reads interleave
\* with inserts and deletes of the product's reviews is the aggregate of
\* the review set as it was at one moment between the first read and the
\* last, so that the histogram counts and the per-source counts sum to
\* total_reviews.
C21_AggregateIsOneSnapshot ==
    (AggregateOk /\ pending # Null /\ pending.step = "done") =>
        /\ \E rows \in pending.seen : resp.data = AggregateData(rows, resp.req)
        /\ ObjectTotal(resp.data.rating_histogram) = resp.data.overall.total_reviews
        /\ BreakdownTotal(resp.data.source_breakdown) = resp.data.overall.total_reviews

\* ids of the products the grid shows
ShownIds == [i \in 1..Len(productList.products) |-> productList.products[i].id]

PageIds(p, c) ==
    LET data == ProductsApi(p, c).data[1] IN [i \in 1..Len(data) |-> data[i].id]

\* C22: when the category filter was changed while a page N > 1 was shown
\* and every request has settled without a failure, the page state is 1 and
\* the products and meta shown are those of page 1 of the new filter.
C22_FilterChangeShowsFirstPage ==
    (/\ productList.event = "filter"
     /\ productList.fromPage > 1
     /\ productList.inFlight = <<>>
     /\ ~productList.faulted) =>
        /\ productList.page = 1
        /\ ShownIds = PageIds(1, productList.categoryFilter)
        /\ productList.meta = ProductsApi(1, productList.categoryFilter).meta[1]

\* C23: a change of the category filter issues a single product-list
\* request, for page 1 of the new filter; a change of page alone issues a
\* single request, for that page with the current filter.
C23_OneFetchPerChange ==
    /\ productList.event = "filter" =>
          productList.issued = <<[p |-> 1, c |-> productList.categoryFilter]>>
    /\ (productList.event \in {"previous", "next"}
        /\ productList.page # productList.fromPage) =>
          productList.issued =
             <<[p |-> productList.page, c |-> productList.categoryFilter]>>

\* the ratings a product's card must show: the mean of its reviews to one
\* decimal, in tenths, and their number
OwnRatings(product, rows) ==
    LET own == WhereProduct(rows, product.id)
    IN  [product EXCEPT
            !.average_rating = Some(IF own = {} THEN 0
                                    ELSE RoundedMean(SumRating(own), Cardinality(own))),
            !.review_count = Some(Cardinality(own))]

\* C24: when the list request of fetchPage succeeds and the aggregate
\* request of some of its products fails, each such product is shown with
\* the fields the list route gave it, every other product of the page with
\* its own average rating and review count, and loading is false.
C24_FailedAggregateIsolated ==
    [][\A i \in 1..MaxInFlight, bad \in (SUBSET FailCandidates) \ {{}} :
          (SettleFetch(i, "ok", bad) /\ i <= Len(productList.inFlight)) =>
             LET req == productList.inFlight[i]
                 fetched == ProductsApi(req.p, req.c).data[1]
             IN  /\ productList'.loading = FALSE
                 /\ Len(productList'.products) = Len(fetched)
                 /\ \A k \in 1..Len(fetched) :
                       productList'.products[k] =
                          IF fetched[k].id \in bad THEN fetched[k]
                          ELSE OwnRatings(fetched[k], reviews)]_vars

\* a page shown with a product without ratings next to a rated product
C24_Witness ==
    /\ ~productList.loading
    /\ \E i, j \in 1..Len(productList.products) :
          /\ productList.products[i].average_rating = Null
          /\ productList.products[j].average_rating # Null
          /\ productList.products[j].review_count[1] > 0

\* C30: whenever the pagination controls are shown, 1 <= page <=
\* meta.total_pages; a click on Previous while page is 1 and a click on Next
\* while page is meta.total_pages leave page unchanged.
C30_PageWithinBounds ==
    /\ [](ControlsShown =>
             /\ 1 <= productList.page
             /\ productList.page <= productList.meta.total_pages)
    /\ [][/\ (ClickPrevious /\ productList.page = 1) => productList'.page = 1
          /\ (ClickNext /\ productList.page = productList.meta.total_pages) =>
                productList'.page = productList.page]_vars

\* Next was clicked on the last page while the controls showed an earlier
\* page, and the controls are shown again
C30_Witness ==
    /\ ControlsShown
    /\ productList.event = "next"
    /\ productList.fromPage = productList.meta.total_pages
    /\ productList.page = productList.meta.total_pages
    /\ productList.page > 1

ListedProducts ==
    {productDetail.reviews[i].product_id : i \in 1..Len(productDetail.reviews)}

\* C26: when the route's id changed while the requests of the id before
\* were in flight and every request has settled without a failure,
\* reviewStats and reviews are those fetched for the current id and
\* reviewsLoading is false.
C26_DetailShowsCurrentProduct ==
    (/\ productDetail.changedInFlight
     /\ productDetail.inFlight = <<>>
     /\ ~productDetail.faulted) =>
        /\ productDetail.shownFor = Some(productDetail.id)
        /\ ListedProducts \subseteq {productDetail.id}
        /\ ~productDetail.reviewsLoading

\* the rows of the page a list response carries
PageRows(r) == {r.data.data[i] : i \in 1..Len(r.data.data)}

SameFilter(q1, q2) ==
    /\ q1.product_id = q2.product_id
    /\ q1.source = q2.source
    /\ q1.min_rating = q2.min_rating
    /\ q1.max_rating = q2.max_rating

\* C27: of two list calls answered one after the other over the same store,
\* two with identical arguments return the same reviews in the same order,
\* and the pages at offset 0 and at offset limit of one filter are disjoint
\* and, when the filter matches at most 2 * limit reviews, hold every
\* matching review exactly once, reviews with equal created_at included.
C27_PagesPartitionResult ==
    [][(/\ resp.op = "list" /\ resp.status = 200
        /\ resp'.op = "list" /\ resp'.status = 200) =>
          /\ resp'.req = resp.req => resp'.data.data = resp.data.data
          /\ (/\ SameFilter(resp.req, resp'.req)
              /\ LimitOf(resp.req) = LimitOf(resp'.req)
              /\ OffsetOf(resp.req) = 0
              /\ OffsetOf(resp'.req) = LimitOf(resp.req)) =>
                /\ PageRows(resp) \cap PageRows(resp') = {}
                /\ Cardinality(ListWhere(reviews, resp.req)) <= 2 * LimitOf(resp.req) =>
                      PageRows(resp) \cup PageRows(resp') = ListWhere(reviews, resp.req)]_vars

\* the reviews of one source among the reviews the page lists
OfSource(seq, source) == SelectSeq(seq, LAMBDA review : review.source = source)

RECURSIVE RatingSum(_)
RatingSum(seq) == IF seq = <<>> THEN 0 ELSE Head(seq).rating + RatingSum(Tail(seq))

\* C28: each entry of the sourceBreakdown handed to ReviewStats carries the
\* number of the listed reviews of its source and, as average, their mean
\* rating (to the one decimal ReviewStats prints, in tenths).
C28_BreakdownHasSourceMeans ==
    (aggregatorPage.stats # Null /\ aggregatorPage.pc = "done") =>
        LET breakdown == aggregatorPage.stats[1].sourceBreakdown
        IN  \A i \in 1..Len(breakdown) :
               LET own == OfSource(aggregatorPage.reviews, breakdown[i].source)
               IN  /\ breakdown[i].count = Len(own)
                   /\ breakdown[i].average = RoundedMean(RatingSum(own), Len(own))

\* C29: a run of handleFetch calls triggerReviewFetch and, only once that
\* has resolved, fetchProductReviews.  When the run ends, loading is false;
\* if both calls resolved, onReviewsFetched was invoked, message is set and
\* error is null; if one rejected, fetchProductReviews was not called after
\* a rejected trigger, onReviewsFetched was not invoked, error is set and
\* message is null.  message and error are never both set.
C29_HandleFetchOutcome ==
    /\ [](~(fetcher.message # Null /\ fetcher.error # Null))
    /\ [](fetcher.calls \in {<<>>, <<"triggerReviewFetch">>,
                             <<"triggerReviewFetch", "fetchProductReviews">>})
    /\ [](fetcher.notified => fetcher.outcome = "resolved")
    /\ [][(fetcher.pc = "trigger" /\ fetcher'.pc # "trigger") =>
             (fetcher'.calls = <<"triggerReviewFetch", "fetchProductReviews">>)
                = (fetcher'.pc = "reviews")]_vars
    /\ [][(fetcher.pc # "idle" /\ fetcher'.pc = "idle") =>
             /\ fetcher'.loading = FALSE
             /\ fetcher'.outcome = "resolved" =>
                   /\ fetcher'.notified
                   /\ fetcher'.message # Null
                   /\ fetcher'.error = Null
                   /\ aggregatorPage'.refreshing = aggregatorPage.refreshing + 1
             /\ fetcher'.outcome # "resolved" =>
                   /\ ~fetcher'.notified
                   /\ fetcher'.message = Null
                   /\ fetcher'.error # Null
                   /\ aggregatorPage' = aggregatorPage]_vars

\* a second or later run of handleFetch has ended with both calls resolved
C29_Witness ==
    /\ fetcher.runs > 1
    /\ fetcher.pc = "idle"
    /\ fetcher.outcome = "resolved"
    /\ fetcher.notified
    /\ fetcher.message # Null

====
